---- MODULE Spec2Model ----
(***************************************************************************)
(* Ghost-block FPGA simulator core: the single-cell evaluation engine      *)
(* (crates/simulator-core/src/cell.rs), the grid driver and the packed     *)
(* signal buffer (crates/simulator-core/src/lib.rs).                       *)
(*                                                                         *)
(* Bitflag values (CellFlags: u16, CellIO: u8) are modelled as the set of  *)
(* bit positions that are set.                                             *)
(***************************************************************************)
EXTENDS Integers, Sequences, FiniteSets, TLC

VARIABLES
    order_arg,  \* argument of the latest ActivationOrder::new call
    order_res,  \* result of the latest ActivationOrder::new call
    cell,       \* the Cell under construction / evaluation (self of eval_cell)
    built,      \* the construction path that produced `cell`
    arg,        \* the CellIO passed to eval_cell
    trace,      \* the line steps of the latest eval_cell call
    ret,        \* the value returned by the latest eval_cell call
    fpga,       \* the grid (self of FPGA::eval)
    ev,         \* the frame of the FPGA::eval call: input, i, j, dir, iterations done
    fio,        \* an FpgaIO operated on directly: self and the latest call on it
    threads,    \* the eval_cell calls running concurrently on `cell`, one per thread
    given       \* the flags word and the fills handed to the constructor of `cell`

vars == <<order_arg, order_res, cell, built, arg, trace, ret, fpga, ev, fio, threads, given>>

----------------------------------------------------------------------------
(* Bounds of the model *)

\* the fill sweep of one line runs over 0..MaxFill
MaxFill == 5

\* the fill level used when several lines are filled at once
LevelFill == 3

\* grids have 1..MaxWidth columns and 1..MaxHeight rows
MaxWidth == 4
MaxHeight == 2

\* signal buffers operated on directly are built for 0..MaxIOBits signal bits
MaxIOBits == 7

\* FpgaIO::new is called for 0..MaxNewBits signal bits
MaxNewBits == 20

\* signal buffers passed to FPGA::eval are built for 0..MaxBits signal bits
MaxBits == 4

\* eval_cell calls running concurrently on one cell
NumThreads == 2

\* how many of the largest u8 values a wide fill is swept over
WideSpan == 17

\* at most MaxEdits cells of a grid differ from the default cell
MaxEdits == 1

----------------------------------------------------------------------------
(* Selector (#[repr(u8)]) *)
Column1 == 0
Column2 == 1
Row1 == 2
Row2 == 3
Selector == {Column1, Column2, Row1, Row2}

(* CellIO bit positions *)
COLUMN_1 == 0
COLUMN_2 == 1
ROW_1 == 2
ROW_2 == 3
CellIOAll == {COLUMN_1, COLUMN_2, ROW_1, ROW_2}

(* CellFlags bit positions *)
JC1_R1 == 0
JC1_R2 == 1
JC2_R1 == 2
JC2_R2 == 3
NOT_C1 == 4
NOT_C2 == 5
C1_OUT == 6
C2_OUT == 7
R1_OUT == 8
R2_OUT == 9
STILL_C1 == 10
STILL_C2 == 11
STILL_R1 == 12
CellFlagsAll == {JC1_R1, JC1_R2, JC2_R1, JC2_R2, NOT_C1, NOT_C2,
                 C1_OUT, C2_OUT, R1_OUT, R2_OUT, STILL_C1, STILL_C2, STILL_R1}

\* bit positions of the underlying u16
U16Bits == 0..15

None == "none"

----------------------------------------------------------------------------
(* bitflags primitives *)

\* Flags::contains for a single-bit flag
Contains(flags, f) == f \in flags

\* Flags::set(flag, value)
SetFlag(flags, f, value) == IF value THEN flags \cup {f} ELSE flags \ {f}

\* as u8 of a bool
B2N(b) == IF b THEN 1 ELSE 0

\* CellFlags::from_bits_truncate: unknown bits are dropped
from_bits_truncate(bits) == bits \cap CellFlagsAll

\* set_range storing the mask over the flags instead of or-ing it into them
set_range_overwrite(flags, pos, range) ==
    from_bits_truncate((pos..(pos + range - 1)) \cap U16Bits)

\* impl_set_range!: mask = ((1 << range) - 1) << pos, cast to the Bits type
set_range(flags, pos, range) ==
    from_bits_truncate(flags \cup ((pos..(pos + range - 1)) \cap U16Bits))

\* impl Default for CellFlags
CellFlagsDefault == set_range({}, 10, 3)

\* CellFlags::from_bits_checked
from_bits_checked(bits) == set_range(from_bits_truncate(bits), 10, 3)

\* CellIO::new
CellIONew(c1, c2, r1, r2) ==
    SetFlag(SetFlag(SetFlag(SetFlag({}, COLUMN_1, c1), COLUMN_2, c2), ROW_1, r1), ROW_2, r2)

----------------------------------------------------------------------------
(* ActivationOrder *)

\* number of distinct selectors of a 4-array (HashSet::len)
DistinctLen(order) == Cardinality({order[k] : k \in 1..4})

\* ActivationOrder::new that stores the selectors re-sorted (four distinct
\* selectors sort to Column1, Column2, Row1, Row2)
ActivationOrderNew_sorted(order) ==
    IF DistinctLen(order) # 4
    THEN [tag |-> "Err", msg |-> "Duplicate enum variants not allowed"]
    ELSE [tag |-> "Ok", val |-> <<Column1, Column2, Row1, Row2>>]

\* ActivationOrder::new that tolerates one repeated selector
ActivationOrderNew_one_repeat(order) ==
    IF DistinctLen(order) < 3
    THEN [tag |-> "Err", msg |-> "Duplicate enum variants not allowed"]
    ELSE [tag |-> "Ok", val |-> order]

\* ActivationOrder::new: Err on a duplicate, Ok(order) otherwise
ActivationOrderNew(order) ==
    IF DistinctLen(order) # 4
    THEN [tag |-> "Err", msg |-> "Duplicate enum variants not allowed"]
    ELSE [tag |-> "Ok", val |-> order]

\* impl Default for ActivationOrder
ActivationOrderDefault == <<Column1, Column2, Row1, Row2>>

\* Fills::new and #[derive(Default)]
FillsNew(c1, c2, r1, r2) == (Column1 :> c1) @@ (Column2 :> c2) @@ (Row1 :> r1) @@ (Row2 :> r2)
FillsDefault == FillsNew(0, 0, 0, 0)

----------------------------------------------------------------------------
(* TargetGroup constants: target is the Fills index, flags the line's flags *)
TG_C1 == [target |-> 0, flags |-> <<JC1_R1, JC1_R2, C1_OUT, NOT_C1, STILL_C1>>]
TG_C2 == [target |-> 1, flags |-> <<JC2_R1, JC2_R2, C2_OUT, NOT_C2, STILL_C2>>]
TG_R1 == [target |-> 2, flags |-> <<JC1_R1, JC2_R1, R1_OUT>>]
TG_R2 == [target |-> 3, flags |-> <<JC1_R2, JC2_R2, R2_OUT>>]

\* impl From<TargetGroup<5>> for TargetGroup<3>
TG3From5(src) == [target |-> src.target, flags |-> SubSeq(src.flags, 1, 3)]

----------------------------------------------------------------------------
(* Cell *)
FIXED_BLOCKS == 9

\* the block counter is a u8: its values are 0..U8-1
U8 == 256

\* Cell::new: clones the flags and forces the three still bits
CellNew(activation_order, flags, fills) ==
    [activation_order |-> activation_order,
     flags |-> set_range(flags, 10, 3),
     fills |-> fills]

\* #[derive(Default)] for Cell
CellDefault ==
    [activation_order |-> ActivationOrderDefault,
     flags |-> CellFlagsDefault,
     fills |-> FillsDefault]

\* count with the comparison's boundary moved by one block
count_off_by_one(self, in, group) ==
    FIXED_BLOCKS + 1
        + self.fills[group.target]
        + B2N(in)
        + B2N(Contains(self.flags, group.flags[1]))
        + B2N(Contains(self.flags, group.flags[2]))
        + B2N(Contains(self.flags, group.flags[3]))

\* count with the line's output flag left out
count_no_out(self, in, group) ==
    FIXED_BLOCKS
        + self.fills[group.target]
        + B2N(in)
        + B2N(Contains(self.flags, group.flags[1]))
        + B2N(Contains(self.flags, group.flags[2]))

\* Cell::count: the sum is a u8; a build without overflow checks keeps it
\* modulo 2^8 (a build with them panics instead, see ArmBlocks)
count(self, in, group) ==
    (FIXED_BLOCKS
        + self.fills[group.target]
        + B2N(in)
        + B2N(Contains(self.flags, group.flags[1]))
        + B2N(Contains(self.flags, group.flags[2]))
        + B2N(Contains(self.flags, group.flags[3]))) % U8

\* sim_gate with the latch taken from the column's output flag instead of its inversion flag
sim_gate_out_latch(self, column_input, group) ==
    LET cnt == count(self, column_input, TG3From5(group))
        out == (Contains(self.flags, group.flags[3])
                    /\ ~Contains(self.flags, STILL_R1))
               \/ cnt > 12
        cleared == SetFlag(SetFlag(SetFlag(self.flags, group.flags[1], FALSE),
                                   group.flags[2], FALSE),
                           group.flags[5], FALSE)
    IN  [out |-> out,
         self |-> IF ~out THEN [self EXCEPT !.flags = cleared] ELSE self]

\* sim_gate with the inversion flag alone forcing the output, Row1's still flag ignored
sim_gate_no_still(self, column_input, group) ==
    LET cnt == count(self, column_input, TG3From5(group))
        out == Contains(self.flags, group.flags[4]) \/ cnt > 12
        cleared == SetFlag(SetFlag(SetFlag(self.flags, group.flags[1], FALSE),
                                   group.flags[2], FALSE),
                           group.flags[5], FALSE)
    IN  [out |-> out,
         self |-> IF ~out THEN [self EXCEPT !.flags = cleared] ELSE self]

\* sim_gate leaving the junction flags set when the column resolves false
sim_gate_keep_junctions(self, column_input, group) ==
    LET cnt == count(self, column_input, TG3From5(group))
        out == (Contains(self.flags, group.flags[4])
                    /\ ~Contains(self.flags, STILL_R1))
               \/ cnt > 12
        cleared == SetFlag(self.flags, group.flags[5], FALSE)
    IN  [out |-> out,
         self |-> IF ~out THEN [self EXCEPT !.flags = cleared] ELSE self]

\* Cell::sim_gate: returns the output and the mutated self
sim_gate(self, column_input, group) ==
    LET cnt == count(self, column_input, TG3From5(group))
        out == (Contains(self.flags, group.flags[4])
                    /\ ~Contains(self.flags, STILL_R1))
               \/ cnt > 12
        cleared == SetFlag(SetFlag(SetFlag(self.flags, group.flags[1], FALSE),
                                   group.flags[2], FALSE),
                           group.flags[5], FALSE)
    IN  [out |-> out,
         self |-> IF ~out THEN [self EXCEPT !.flags = cleared] ELSE self]

\* sim_row1 with the inversion flags left out of the block count
sim_row1_plain_count(self, row_input) ==
    LET cnt == count(self, row_input, TG_R1)
        out == cnt > 12
               \/ (Contains(self.flags, NOT_C1) /\ ~Contains(self.flags, STILL_C1))
               \/ (Contains(self.flags, NOT_C2) /\ ~Contains(self.flags, STILL_C2))
        cleared == SetFlag(SetFlag(SetFlag(self.flags, JC1_R1, FALSE),
                                   JC2_R1, FALSE),
                           STILL_R1, FALSE)
    IN  [out |-> out,
         self |-> IF ~out THEN [self EXCEPT !.flags = cleared] ELSE self]

\* sim_row1 without the inversion rule: the threshold alone decides
sim_row1_no_inversion(self, row_input) ==
    LET cnt == count(self, row_input, TG_R1)
                + B2N(Contains(self.flags, NOT_C1))
                + B2N(Contains(self.flags, NOT_C2))
        out == cnt > 12
        cleared == SetFlag(SetFlag(SetFlag(self.flags, JC1_R1, FALSE),
                                   JC2_R1, FALSE),
                           STILL_R1, FALSE)
    IN  [out |-> out,
         self |-> IF ~out THEN [self EXCEPT !.flags = cleared] ELSE self]

\* sim_row1 leaving its own still flag set when the row resolves false
sim_row1_keep_still(self, row_input) ==
    LET cnt == (count(self, row_input, TG_R1)
                + B2N(Contains(self.flags, NOT_C1))
                + B2N(Contains(self.flags, NOT_C2))) % U8
        out == cnt > 12
               \/ (Contains(self.flags, NOT_C1) /\ ~Contains(self.flags, STILL_C1))
               \/ (Contains(self.flags, NOT_C2) /\ ~Contains(self.flags, STILL_C2))
        cleared == SetFlag(SetFlag(self.flags, JC1_R1, FALSE), JC2_R1, FALSE)
    IN  [out |-> out,
         self |-> IF ~out THEN [self EXCEPT !.flags = cleared] ELSE self]

\* Cell::sim_row1
sim_row1(self, row_input) ==
    LET cnt == (count(self, row_input, TG_R1)
                + B2N(Contains(self.flags, NOT_C1))
                + B2N(Contains(self.flags, NOT_C2))) % U8
        out == cnt > 12
               \/ (Contains(self.flags, NOT_C1) /\ ~Contains(self.flags, STILL_C1))
               \/ (Contains(self.flags, NOT_C2) /\ ~Contains(self.flags, STILL_C2))
        cleared == SetFlag(SetFlag(SetFlag(self.flags, JC1_R1, FALSE),
                                   JC2_R1, FALSE),
                           STILL_R1, FALSE)
    IN  [out |-> out,
         self |-> IF ~out THEN [self EXCEPT !.flags = cleared] ELSE self]

\* sim_row2 clearing Row1's still flag as sim_row1 does
sim_row2_clear_still(self, row_input) ==
    LET cnt == count(self, row_input, TG_R2)
        out == cnt > 12
        cleared == SetFlag(SetFlag(SetFlag(self.flags, JC1_R2, FALSE), JC2_R2, FALSE),
                           STILL_R1, FALSE)
    IN  [out |-> out,
         self |-> IF ~out THEN [self EXCEPT !.flags = cleared] ELSE self]

\* Cell::sim_row2
sim_row2(self, row_input) ==
    LET cnt == count(self, row_input, TG_R2)
        out == cnt > 12
        cleared == SetFlag(SetFlag(self.flags, JC1_R2, FALSE), JC2_R2, FALSE)
    IN  [out |-> out,
         self |-> IF ~out THEN [self EXCEPT !.flags = cleared] ELSE self]

\* one iteration of eval_cell's loop: the match arm for selector p
EvalArm(rtm, io, p) ==
    LET r == CASE p = Column1 -> sim_gate(rtm, Contains(io, COLUMN_1), TG_C1)
               [] p = Column2 -> sim_gate(rtm, Contains(io, COLUMN_2), TG_C2)
               [] p = Row1    -> sim_row1(rtm, Contains(io, ROW_1))
               [] p = Row2    -> sim_row2(rtm, Contains(io, ROW_2))
        bit == CASE p = Column1 -> COLUMN_1
                 [] p = Column2 -> COLUMN_2
                 [] p = Row1    -> ROW_1
                 [] p = Row2    -> ROW_2
    IN  [rtm |-> r.self, io |-> SetFlag(io, bit, r.out)]

\* the blocks the arm for selector p adds up, as a number without a width: the
\* u8 additions of count and sim_row1 overflow exactly when it is U8 or more
ArmBlocks(rtm, io, p) ==
    LET sum(in, group) == FIXED_BLOCKS
                            + rtm.fills[group.target]
                            + B2N(in)
                            + B2N(Contains(rtm.flags, group.flags[1]))
                            + B2N(Contains(rtm.flags, group.flags[2]))
                            + B2N(Contains(rtm.flags, group.flags[3]))
    IN  CASE p = Column1 -> sum(Contains(io, COLUMN_1), TG3From5(TG_C1))
          [] p = Column2 -> sum(Contains(io, COLUMN_2), TG3From5(TG_C2))
          [] p = Row1    -> sum(Contains(io, ROW_1), TG_R1)
                                + B2N(Contains(rtm.flags, NOT_C1))
                                + B2N(Contains(rtm.flags, NOT_C2))
          [] p = Row2    -> sum(Contains(io, ROW_2), TG_R2)

\* the loop of eval_cell from entry k of the activation order on
RECURSIVE EvalFrom(_, _, _)
EvalFrom(rtm, io, k) ==
    IF k > 4 THEN io
    ELSE LET s == EvalArm(rtm, io, rtm.activation_order[k])
         IN  EvalFrom(s.rtm, s.io, k + 1)

\* Cell::eval_cell as a function of (self, input)
eval_cell(self, io) == EvalFrom(self, io, 1)

----------------------------------------------------------------------------
(* The cells and inputs the model draws from *)

\* every 4-array of selectors a caller can pass to ActivationOrder::new
OrderArrays == [1..4 -> Selector]

\* the 24 activation orders ActivationOrder::new accepts
Orders == {ActivationOrderNew(o).val : o \in {a \in OrderArrays : ActivationOrderNew(a).tag = "Ok"}}

JunctionBits == {JC1_R1, JC1_R2, JC2_R1, JC2_R2}
NotBits == {NOT_C1, NOT_C2}
OutBits == {C1_OUT, C2_OUT, R1_OUT, R2_OUT}
StillBits == {STILL_C1, STILL_C2, STILL_R1}

\* fills with every line at 0 or at LevelFill
LevelFills == {FillsNew(a, b, c, d) : a, b, c, d \in {0, LevelFill}}

\* fills with one line swept over 0..MaxFill and the other lines at 0
SweepFills == {[FillsDefault EXCEPT ![l] = v] : l \in Selector, v \in 0..MaxFill}

\* cell_tests::new_with_output: default flags, the four outputs set, then the six arguments
new_with_output(jc1_r1, jc1_r2, jc2_r1, jc2_r2, not_c1, not_c2) ==
    LET f0 == set_range(CellFlagsDefault, 6, 4)
        f1 == SetFlag(f0, JC1_R1, jc1_r1)
        f2 == SetFlag(f1, JC1_R2, jc1_r2)
        f3 == SetFlag(f2, JC2_R1, jc2_r1)
        f4 == SetFlag(f3, JC2_R2, jc2_r2)
        f5 == SetFlag(f4, NOT_C1, not_c1)
    IN  SetFlag(f5, NOT_C2, not_c2)

\* the cells built by the unit tests of cell.rs (column_evaluation_1..7, not_column_evaluation_1..2)
TestCells ==
    LET T == TRUE
        F == FALSE
        o1 == <<Column1, Column2, Row1, Row2>>
        o2 == <<Row1, Column1, Column2, Row2>>
        o3 == <<Row1, Column1, Row2, Column2>>
        o4 == <<Row1, Row2, Column1, Column2>>
    IN  { CellNew(o1, new_with_output(F, F, F, F, F, F), FillsNew(0, 0, 0, 0)),
          CellNew(o1, new_with_output(F, F, F, F, F, F), FillsNew(2, 2, 0, 0)),
          CellNew(o2, new_with_output(T, T, F, F, F, F), FillsNew(2, 0, 0, 0)),
          CellNew(o2, new_with_output(T, T, F, F, F, F), FillsNew(2, 0, 5, 0)),
          CellNew(o1, new_with_output(T, F, F, F, F, F), FillsNew(1, 0, 2, 0)),
          CellNew(o1, new_with_output(T, T, F, F, F, F), FillsNew(0, 0, 2, 2)),
          CellNew(o3, new_with_output(T, T, F, F, F, F), FillsNew(0, 0, 1, 2)),
          CellNew(o3, new_with_output(T, T, F, F, F, F), FillsNew(1, 0, 1, 2)),
          CellNew(o3, new_with_output(F, F, F, F, T, F), FillsNew(0, 0, 1, 0)),
          CellNew(o4, new_with_output(F, T, F, F, T, F), FillsNew(1, 0, 1, 1)) }

\* flags and fills of the cells built with Cell::new:
\*   every junction/inversion setting, outputs all off or all on, lines at 0 or LevelFill;
\*   no junction, any inversion setting or any output setting, one line swept
CellConfigs ==
    {[flags |-> j \cup o, fills |-> fl] :
        j \in SUBSET (JunctionBits \cup NotBits), o \in {{}, OutBits}, fl \in LevelFills}
    \cup
    {[flags |-> f, fills |-> fl] :
        f \in (SUBSET NotBits) \cup (SUBSET OutBits), fl \in SweepFills}

NoCell == [activation_order |-> <<>>, flags |-> {}, fills |-> <<>>]
NoResult == [tag |-> None]
\* no constructor arguments recorded
NoGiven == [flags |-> {}, fills |-> <<>>]
NoBuffer == [io |-> <<>>, trim |-> 0]
\* an FpgaIO operated on directly: self; how it was built (ctor, the signal
\* bits it was built for, the booleans converted); the latest call on it (op,
\* pos, value), self before that call and what the call returned
NoIO == [self |-> NoBuffer, ctor |-> None, bits |-> 0, src |-> <<>>,
         op |-> None, pos |-> 0, value |-> {}, before |-> NoBuffer,
         out |-> [tag |-> None]]
NoGrid == [width |-> 0, height |-> 0, data |-> <<>>]
\* the frame of FPGA::eval: the locals input, i, j, dir, the iterations done n,
\* and what the call was given and did: bits (the signal bits the caller built
\* the buffer for), passed (the buffer as passed), log (row, col, CellIO read
\* and CellIO written back of every iteration so far)
NoEval == [pc |-> None, input |-> NoBuffer, i |-> 0, j |-> 0, dir |-> 1, n |-> 0,
           bits |-> 0, passed |-> NoBuffer, log |-> <<>>, build |-> "any"]

----------------------------------------------------------------------------
(* Single-cell evaluation *)

\* the loop of eval_cell from entry k on, recorded: one entry per iteration with
\* the selector and the working flags and ports before the iteration, and a
\* final entry (sel = None) with the working flags and ports when the loop ends
RECURSIVE TraceFrom(_, _, _)
TraceFrom(rtm, io, k) ==
    IF k > 4 THEN <<[sel |-> None, flags |-> rtm.flags, io |-> io]>>
    ELSE LET p == rtm.activation_order[k]
             s == EvalArm(rtm, io, p)
         IN  <<[sel |-> p, flags |-> rtm.flags, io |-> io]>>
                 \o TraceFrom(s.rtm, s.io, k + 1)

\* cells built with Cell::new from a checked activation order, not yet evaluated
InitCell ==
    /\ order_arg = <<>>
    /\ order_res = NoResult
    /\ \/ \E o \in Orders, c \in CellConfigs : cell = CellNew(o, c.flags, c.fills)
       \/ cell \in TestCells
    /\ built = "Cell::new"
    /\ arg \in SUBSET CellIOAll
    /\ trace = <<>>
    /\ ret = None
    /\ fpga = NoGrid
    /\ ev = NoEval
    /\ fio = NoIO
    /\ threads = <<>>
    /\ given = NoGiven

\* eval_cell working on self instead of on a clone: the flags the pass ends with
\* are left in the cell
Eval_in_place ==
    /\ cell # NoCell
    /\ trace' = TraceFrom(cell, arg, 1)
    /\ ret' = trace'[5].io
    /\ cell' = [cell EXCEPT !.flags = trace'[5].flags]
    /\ UNCHANGED <<order_arg, order_res, built, arg, fpga, ev, fio, threads, given>>

\* a line of the cell has a fill so large that its sum can reach U8: a sum is
\* FIXED_BLOCKS + fill + at most 6 one-bit terms (input, three flags of the
\* line, two inversion flags on Row1)
CanOverflow(self) == \E l \in Selector : FIXED_BLOCKS + self.fills[l] + 6 >= U8

\* the run of eval_cell in a build with overflow checks, given its run T in a
\* build without them: the same iterations up to the first one whose block sum
\* does not fit the u8; there the addition panics and the call never returns
CheckedRun(self, T) ==
    LET over == IF ~CanOverflow(self) THEN {}
                ELSE {k \in 1..4 :
                        ArmBlocks([self EXCEPT !.flags = T[k].flags], T[k].io, T[k].sel) >= U8}
    IN  IF over = {} THEN T
        ELSE LET k == CHOOSE x \in over : \A y \in over : x <= y
             IN  SubSeq(T, 1, k) \o <<[sel |-> "panic", flags |-> T[k].flags, io |-> T[k].io]>>

\* the last call of eval_cell panicked: the process is gone
Panicked == trace # <<>> /\ trace[Len(trace)].sel = "panic"

\* a call of eval_cell(arg) on `cell`: the loop runs on the clone rtm_cell and on
\* the by-value `input`, which is returned; self is only read. The u8 sums wrap
\* or panic as the build has it; the two runs are the same when every sum fits
Eval ==
    /\ cell # NoCell
    /\ ~Panicked
    /\ LET T == TraceFrom(cell, arg, 1)
       IN  trace' \in {T, CheckedRun(cell, T)}
    /\ ret' = IF trace'[Len(trace')].sel = None THEN trace'[Len(trace')].io ELSE None
    /\ UNCHANGED <<order_arg, order_res, cell, built, arg, fpga, ev, fio, threads, given>>

NextCell == Eval

SpecCell == InitCell /\ [][NextCell]_vars

\* fills with one line in the top WideSpan values of a u8 and the other lines
\* at 0, and fills with every line at the largest u8
WideFills ==
    {[FillsDefault EXCEPT ![l] = v] : l \in Selector, v \in (U8 - WideSpan)..(U8 - 1)}
        \cup {FillsNew(U8 - 1, U8 - 1, U8 - 1, U8 - 1)}

\* flag settings of the cells with wide fills: any inversion setting, the
\* outputs on, and every configuration bit on
WideFlags == (SUBSET NotBits) \cup {OutBits, JunctionBits \cup NotBits \cup OutBits}

\* cells built with Cell::new with fills near the top of the u8 range
InitWide ==
    /\ order_arg = <<>>
    /\ order_res = NoResult
    /\ \E o \in Orders, f \in WideFlags, fl \in WideFills : cell = CellNew(o, f, fl)
    /\ built = "Cell::new"
    /\ arg \in SUBSET CellIOAll
    /\ trace = <<>>
    /\ ret = None
    /\ fpga = NoGrid
    /\ ev = NoEval
    /\ fio = NoIO
    /\ threads = <<>>
    /\ given = NoGiven

SpecWide == InitWide /\ [][NextCell]_vars

----------------------------------------------------------------------------
(* Construction paths of ActivationOrder, CellFlags and Cell *)

\* nothing constructed yet
InitBuild ==
    /\ order_arg = <<>>
    /\ order_res = NoResult
    /\ cell = NoCell
    /\ built = None
    /\ arg = {}
    /\ trace = <<>>
    /\ ret = None
    /\ fpga = NoGrid
    /\ ev = NoEval
    /\ fio = NoIO
    /\ threads = <<>>
    /\ given = NoGiven

\* ActivationOrder::new(order) on any array of four selectors
OrderNew ==
    /\ order_res = NoResult
    /\ cell = NoCell
    /\ \E a \in OrderArrays :
        /\ order_arg' = a
        /\ order_res' = ActivationOrderNew(a)
    /\ UNCHANGED <<cell, built, arg, trace, ret, fpga, ev, fio, threads, given>>

\* the fills handed to Cell::new: all zero, or four different values
BuildFills == {FillsDefault, FillsNew(1, LevelFill, 0, MaxFill)}

\* Cell::new(&order, &flags, fills) with the order a successful
\* ActivationOrder::new returned and any CellFlags value
BuildNew ==
    /\ cell = NoCell
    /\ order_res.tag = "Ok"
    /\ \E f \in SUBSET CellFlagsAll, fl \in BuildFills :
        /\ given' = [flags |-> f, fills |-> fl]
        /\ cell' = CellNew(order_res.val, f, fl)
    /\ built' = "Cell::new"
    /\ UNCHANGED <<order_arg, order_res, arg, trace, ret, fpga, ev, fio, threads>>

\* Cell::default(), the cell FPGA::new fills the grid with
BuildDefault ==
    /\ cell = NoCell
    /\ order_res = NoResult
    /\ cell' = CellDefault
    /\ built' = "Cell::default"
    /\ UNCHANGED <<order_arg, order_res, arg, trace, ret, fpga, ev, fio, threads, given>>

\* a cell whose flags come from CellFlags::from_bits_checked(bits), bits any u16
BuildChecked ==
    /\ cell = NoCell
    /\ order_res = NoResult
    /\ \E bits \in SUBSET U16Bits :
        /\ given' = [flags |-> bits, fills |-> FillsDefault]
        /\ cell' = [activation_order |-> ActivationOrderDefault,
                    flags |-> from_bits_checked(bits),
                    fills |-> FillsDefault]
    /\ built' = "from_bits_checked"
    /\ UNCHANGED <<order_arg, order_res, arg, trace, ret, fpga, ev, fio, threads>>

\* a cell read back by the derived Deserialize (File::load_fpga): the stored
\* flags word is taken as it is, no set_range(10, 3) runs on it; raw ranges
\* over the words without unknown bits
Deserialize ==
    /\ cell = NoCell
    /\ order_res = NoResult
    /\ \E raw \in SUBSET CellFlagsAll :
        cell' = [activation_order |-> ActivationOrderDefault,
                 flags |-> raw,
                 fills |-> FillsDefault]
    /\ built' = "Deserialize"
    /\ UNCHANGED <<order_arg, order_res, arg, trace, ret, fpga, ev, fio, threads, given>>

NextBuild == OrderNew \/ BuildNew \/ BuildDefault \/ BuildChecked \/ Deserialize \/ Eval

SpecBuild == InitBuild /\ [][NextBuild]_vars

----------------------------------------------------------------------------
(* FpgaIO: the packed signal buffer; a byte is the set of its set bits 0..7 *)

Byte == 0..7

\* b >> n and b << n on a u8
ShR(b, n) == {k - n : k \in {x \in b : x >= n}}
ShL(b, n) == {k + n : k \in b} \cap Byte

\* CellIO::from_bits_truncate
CellIO_from_bits_truncate(bits) == bits \cap CellIOAll

\* FpgaIO::new sizing the array for the signal bits alone
FpgaIONew_no_scratch(length) ==
    LET pagination == (length \div 8) + B2N(length % 8 > 0)
    IN  [io |-> [p \in 1..pagination |-> {}], trim |-> length % 8]

\* FpgaIO::new with trim counting the bits left over in the array
FpgaIONew_trim_padding(length) ==
    LET length2 == length + 2
        pagination == (length2 \div 8) + B2N(length2 % 8 > 0)
    IN  [io |-> [p \in 1..pagination |-> {}], trim |-> pagination * 8 - length2]

\* FpgaIO::new
FpgaIONew(length) ==
    LET length2 == length + 2
        pagination == (length2 \div 8) + B2N(length2 % 8 > 0)
    IN  [io |-> [p \in 1..pagination |-> {}], trim |-> (length2 - 2) % 8]

\* impl From<Box<[bool]>> for FpgaIO: bit i % 8 of byte i / 8 is value[i]
FpgaIOFrom(value) ==
    LET capacity == Len(value) + 2
        pagination == (capacity \div 8) + B2N(capacity % 8 > 0)
    IN  [io |-> [p \in 1..pagination |->
                    {b \in Byte : (p - 1) * 8 + b < Len(value) /\ value[(p - 1) * 8 + b + 1]}],
         trim |-> (capacity - 2) % 8]

\* FpgaIO::len
len(self) == Len(self.io)

\* FpgaIO::cell_io_at
cell_io_at(self, cell_pos) ==
    LET pagination == cell_pos \div 8
        trim == cell_pos % 8
        bits == (ShR(self.io[pagination + 1], trim) \cap {0, 1})
                    \cup (ShR(self.io[len(self)], 4) \cap {2, 3})
    IN  CellIO_from_bits_truncate(bits)

\* FpgaIO::set, statement by statement
set(self, cell_pos, value) ==
    LET pagination == cell_pos \div 8
        trim == cell_pos % 8
        bits == value
        io1 == [self.io EXCEPT ![pagination + 1] = @ \ ShL({0, 1}, trim)]
        io2 == [io1 EXCEPT ![pagination + 1] = @ \cup ShL(bits \cap {0, 1}, trim)]
        bits4 == ShL(bits, 4)
        io3 == [io2 EXCEPT ![len(self)] = @ \ ShL({0, 1}, 6)]
        io4 == [io3 EXCEPT ![len(self)] = @ \cup ShL(bits4 \cap ShL({0, 1}, 2), 6)]
    IN  [self EXCEPT !.io = io4]

\* the u8 a set of bit positions stands for
ByteVal(b) ==
    B2N(0 \in b) + 2 * B2N(1 \in b) + 4 * B2N(2 \in b) + 8 * B2N(3 \in b)
        + 16 * B2N(4 \in b) + 32 * B2N(5 \in b) + 64 * B2N(6 \in b) + 128 * B2N(7 \in b)

\* FpgaIO::get_value_vec: for every byte of io and bit 0..7, element
\* byte * 8 + bit (the byte's value, in u8) of a vector of len - 1 + trim falses
\* is set to that bit of the byte; an index outside the vector panics, and so
\* does the overflow of byte * 8 unless the build wraps
get_value_vec(self, wrap) ==
    LET length == len(self) - 1 + self.trim
        base(p) == (ByteVal(self.io[p]) * 8) % 256
        overflow == \E p \in 1..len(self) : ByteVal(self.io[p]) * 8 > 255
        outside == \E p \in 1..len(self) : base(p) + 7 >= length
        last(k) == CHOOSE p \in 1..len(self) :
                        /\ base(p) <= k /\ k <= base(p) + 7
                        /\ \A q \in (p + 1)..len(self) : ~(base(q) <= k /\ k <= base(q) + 7)
    IN  IF (overflow /\ ~wrap) \/ outside
        THEN [tag |-> "panic"]
        ELSE [tag |-> "Ok",
              vec |-> [k \in 1..length |->
                        IF \E p \in 1..len(self) : base(p) <= k - 1 /\ k - 1 <= base(p) + 7
                        THEN (k - 1 - base(last(k - 1))) \in self.io[last(k - 1)]
                        ELSE FALSE]]

\* reset_row_io setting the two scratch bits instead of clearing them
reset_row_io_sets(self) == [self EXCEPT !.io[len(self)] = @ \cup ShL({0, 1}, 6)]

\* FpgaIO::reset_row_io
reset_row_io(self) == [self EXCEPT !.io[len(self)] = @ \ ShL({0, 1}, 6)]

----------------------------------------------------------------------------
(* FPGA: the grid and its evaluation pass *)

\* FPGA::new filling the grid with cells whose flags are CellFlags::empty()
FPGANew_empty_flags(width, height) ==
    [width |-> width, height |-> height,
     data |-> [k \in 1..(width * height) |-> [CellDefault EXCEPT !.flags = {}]]]

\* FPGA::new
FPGANew(width, height) ==
    [width |-> width, height |-> height, data |-> [k \in 1..(width * height) |-> CellDefault]]

\* FPGA::get_cell reading the vector column by column
get_cell_column_major(self, row, col) ==
    IF row < self.height /\ col < self.width
    THEN self.data[col * self.height + row + 1]
    ELSE NoCell

\* FPGA::get_cell; NoCell stands for Option::None
get_cell(self, row, col) ==
    IF row < self.height /\ col < self.width
    THEN self.data[row * self.width + col + 1]
    ELSE NoCell

\* FPGA::get_mut: the cell the returned reference points to
get_mut(self, row, col) ==
    IF row < self.height /\ col < self.width
    THEN self.data[row * self.width + col + 1]
    ELSE NoCell

\* the cells an editor stores through get_mut
Palette ==
    {CellNew(ActivationOrderDefault, {}, FillsNew(3, 3, 3, 3)),
     CellNew(<<Row1, Column1, Column2, Row2>>, {NOT_C1, JC1_R1}, FillsNew(3, 4, 0, 0)),
     CellNew(ActivationOrderDefault, {}, FillsNew(0, 0, 4, 4))}

\* the buffers a caller builds for n signal bits: FpgaIO::new(n) and the
\* conversion of n booleans
BuffersFor(n) == {FpgaIONew(n)} \cup {FpgaIOFrom(s) : s \in [1..n -> BOOLEAN]}

\* a freshly constructed grid, no eval call yet
InitGrid ==
    /\ order_arg = <<>>
    /\ order_res = NoResult
    /\ cell = NoCell
    /\ built = None
    /\ arg = {}
    /\ trace = <<>>
    /\ ret = None
    /\ \E w \in 1..MaxWidth, h \in 1..MaxHeight : fpga = FPGANew(w, h)
    /\ ev = [NoEval EXCEPT !.pc = "idle"]
    /\ fio = NoIO
    /\ threads = <<>>
    /\ given = NoGiven

\* *fpga.get_mut(r, c).unwrap() = v
PutCell ==
    /\ ev.pc = "idle"
    /\ \E r \in 0..(fpga.height - 1), c \in 0..(fpga.width - 1), v \in Palette :
        /\ fpga' = [fpga EXCEPT !.data[r * fpga.width + c + 1] = v]
        /\ Cardinality({k \in DOMAIN fpga'.data : fpga'.data[k] # CellDefault}) <= MaxEdits
    /\ UNCHANGED <<order_arg, order_res, cell, built, arg, trace, ret, ev, fio, threads, given>>

\* FPGA::eval that makes the size check after the first cell was evaluated
EvalBegin_late_check ==
    /\ ev.pc = "idle"
    /\ \E bits \in 0..MaxBits : \E input \in BuffersFor(bits) :
        ev' = IF len(input) * 8 + input.trim - 2 # fpga.width * 2
              THEN [ev EXCEPT !.pc = "Err", !.n = 1,
                              !.input = set(input, 0, eval_cell(get_cell(fpga, 0, 0),
                                                                cell_io_at(input, 0))),
                              !.bits = bits, !.passed = input]
              ELSE [pc |-> "loop", input |-> input, i |-> 0, j |-> 0, dir |-> 1, n |-> 0,
                    bits |-> bits, passed |-> input, log |-> <<>>, build |-> "any"]
    /\ UNCHANGED <<order_arg, order_res, cell, built, arg, trace, ret, fpga, fio, threads, given>>

\* FPGA::eval entry: the size check, then the loop variables
EvalBegin ==
    /\ ev.pc = "idle"
    /\ \E bits \in 0..MaxBits : \E input \in BuffersFor(bits) :
        ev' = IF len(input) * 8 + input.trim - 2 # fpga.width * 2
              THEN [ev EXCEPT !.pc = "Err", !.input = input,
                              !.bits = bits, !.passed = input]
              ELSE [pc |-> "loop", input |-> input, i |-> 0, j |-> 0, dir |-> 1, n |-> 0,
                    bits |-> bits, passed |-> input, log |-> <<>>, build |-> "any"]
    /\ UNCHANGED <<order_arg, order_res, cell, built, arg, trace, ret, fpga, fio, threads, given>>

\* the loop body scanning every row left to right
EvalStep_raster ==
    /\ ev.pc = "loop"
    /\ ev.n < fpga.height * fpga.width
    /\ LET c == get_cell(fpga, ev.j, ev.i)
           cell_io == eval_cell(c, cell_io_at(ev.input, ev.i))
           written == set(ev.input, ev.i, cell_io)
           flip == ev.i = fpga.width - 1
       IN  ev' = IF c = NoCell
                 THEN [ev EXCEPT !.pc = "panic"]
                 ELSE [ev EXCEPT !.input = IF flip THEN reset_row_io(written) ELSE written,
                                 !.j = IF flip THEN ev.j + 1 ELSE ev.j,
                                 !.i = IF flip THEN 0 ELSE ev.i + 1,
                                 !.n = ev.n + 1,
                                 !.log = Append(@, [row |-> ev.j, col |-> ev.i,
                                                    in |-> cell_io_at(ev.input, ev.i),
                                                    out |-> cell_io])]
    /\ UNCHANGED <<order_arg, order_res, cell, built, arg, trace, ret, fpga, fio, threads, given>>

\* the loop body turning at either edge whatever the direction
EvalStep_edge_only ==
    /\ ev.pc = "loop"
    /\ ev.n < fpga.height * fpga.width
    /\ LET c == get_cell(fpga, ev.j, ev.i)
           cell_io == eval_cell(c, cell_io_at(ev.input, ev.i))
           written == set(ev.input, ev.i, cell_io)
           flip == ev.i = fpga.width - 1 \/ ev.i = 0
       IN  ev' = IF c = NoCell
                 THEN [ev EXCEPT !.pc = "panic"]
                 ELSE [ev EXCEPT !.input = IF flip THEN reset_row_io(written) ELSE written,
                                 !.dir = IF flip THEN -ev.dir ELSE ev.dir,
                                 !.j = IF flip THEN ev.j + 1 ELSE ev.j,
                                 !.i = IF flip THEN ev.i ELSE ev.i + ev.dir,
                                 !.n = ev.n + 1,
                                 !.log = Append(@, [row |-> ev.j, col |-> ev.i,
                                                    in |-> cell_io_at(ev.input, ev.i),
                                                    out |-> cell_io])]
    /\ UNCHANGED <<order_arg, order_res, cell, built, arg, trace, ret, fpga, fio, threads, given>>

\* some u8 sum of the call eval_cell(io) on self does not fit its counter
Overflows(self, io) ==
    /\ CanOverflow(self)
    /\ LET T == TraceFrom(self, io, 1) IN CheckedRun(self, T) # T

\* one iteration of the loop of FPGA::eval. When a sum of the cell evaluation
\* overflows, a build with overflow checks panics there and a build without
\* them goes on with the wrapped count; ev.build keeps which of the two the
\* call has shown itself to be ("any" while no sum has overflowed)
EvalStep ==
    /\ ev.pc = "loop"
    /\ ev.n < fpga.height * fpga.width
    /\ LET c == get_cell(fpga, ev.j, ev.i)
           cell_io == eval_cell(c, cell_io_at(ev.input, ev.i))
           written == set(ev.input, ev.i, cell_io)
           flip == (ev.i = fpga.width - 1 /\ ev.dir = 1) \/ (ev.i = 0 /\ ev.dir = -1)
           over == c # NoCell /\ Overflows(c, cell_io_at(ev.input, ev.i))
       IN  \/ /\ c = NoCell \/ (over /\ ev.build = "any")
              /\ ev' = [ev EXCEPT !.pc = "panic"]
           \/ /\ c # NoCell
              /\ ev' = [ev EXCEPT !.input = IF flip THEN reset_row_io(written) ELSE written,
                                  !.dir = IF flip THEN -ev.dir ELSE ev.dir,
                                  !.j = IF flip THEN ev.j + 1 ELSE ev.j,
                                  !.i = IF flip THEN ev.i ELSE ev.i + ev.dir,
                                  !.n = ev.n + 1,
                                  !.build = IF over THEN "wrapping" ELSE @,
                                  !.log = Append(@, [row |-> ev.j, col |-> ev.i,
                                                     in |-> cell_io_at(ev.input, ev.i),
                                                     out |-> cell_io])]
    /\ UNCHANGED <<order_arg, order_res, cell, built, arg, trace, ret, fpga, fio, threads, given>>

\* the loop is over: Ok(input)
EvalEnd ==
    /\ ev.pc = "loop"
    /\ ev.n = fpga.height * fpga.width
    /\ ev' = [ev EXCEPT !.pc = "Ok"]
    /\ UNCHANGED <<order_arg, order_res, cell, built, arg, trace, ret, fpga, fio, threads, given>>

NextGrid == PutCell \/ EvalBegin \/ EvalStep \/ EvalEnd

SpecGrid == InitGrid /\ [][NextGrid]_vars

\* cells with a fill at the top of the u8 range, as a saved grid can hold them
\* (the derived Deserialize takes any four u8 as fills)
WidePalette ==
    {CellNew(ActivationOrderDefault, {}, FillsNew(U8 - 1, 0, 0, 0)),
     CellNew(ActivationOrderDefault, OutBits, FillsNew(0, U8 - FIXED_BLOCKS - 2, 0, 0))}

\* a freshly constructed grid in which one cell has a wide fill, no eval call yet
InitGridWide ==
    /\ order_arg = <<>>
    /\ order_res = NoResult
    /\ cell = NoCell
    /\ built = None
    /\ arg = {}
    /\ trace = <<>>
    /\ ret = None
    /\ \E w \in 1..MaxWidth, h \in 1..MaxHeight :
        \E k \in 1..(w * h), v \in WidePalette :
            fpga = [FPGANew(w, h) EXCEPT !.data[k] = v]
    /\ ev = [NoEval EXCEPT !.pc = "idle"]
    /\ fio = NoIO
    /\ threads = <<>>
    /\ given = NoGiven

SpecGridWide == InitGridWide /\ [][NextGrid]_vars

----------------------------------------------------------------------------
(* FpgaIO operated on directly: one set or reset_row_io call on a built buffer *)

\* the grid width whose size check a buffer passes (0: none)
AcceptedWidth(self) ==
    IF (len(self) * 8 + self.trim - 2) % 2 = 0
    THEN (len(self) * 8 + self.trim - 2) \div 2
    ELSE 0

\* the columns of a buffer: those of the grid eval accepts it for
ColumnsOf(self) == 0..(AcceptedWidth(self) - 1)

\* a buffer built by FpgaIO::new(bits), bits in 0..MaxNewBits, or converted from
\* 0..MaxIOBits booleans; no call on it yet
InitIO ==
    /\ order_arg = <<>>
    /\ order_res = NoResult
    /\ cell = NoCell
    /\ built = None
    /\ arg = {}
    /\ trace = <<>>
    /\ ret = None
    /\ fpga = NoGrid
    /\ ev = NoEval
    /\ \/ \E bits \in 0..MaxNewBits :
            fio = [NoIO EXCEPT !.self = FpgaIONew(bits), !.ctor = "new", !.bits = bits,
                               !.src = [k \in 1..bits |-> FALSE],
                               !.before = FpgaIONew(bits)]
       \/ \E bits \in 0..MaxIOBits : \E value \in [1..bits -> BOOLEAN] :
            fio = [NoIO EXCEPT !.self = FpgaIOFrom(value), !.ctor = "from", !.bits = bits,
                               !.src = value, !.before = FpgaIOFrom(value)]
    /\ threads = <<>>
    /\ given = NoGiven

\* self.set(pos, value)
IOSet ==
    /\ fio.op = None
    /\ fio.self # NoBuffer
    /\ \E c \in ColumnsOf(fio.self), v \in SUBSET CellIOAll :
        fio' = [fio EXCEPT !.self = set(fio.self, c, v), !.op = "set",
                           !.pos = c, !.value = v, !.before = fio.self]
    /\ UNCHANGED <<order_arg, order_res, cell, built, arg, trace, ret, fpga, ev, threads, given>>

\* self.reset_row_io()
IOReset ==
    /\ fio.op = None
    /\ fio.self # NoBuffer
    /\ fio' = [fio EXCEPT !.self = reset_row_io(fio.self), !.op = "reset_row_io",
                          !.before = fio.self]
    /\ UNCHANGED <<order_arg, order_res, cell, built, arg, trace, ret, fpga, ev, threads, given>>

\* the bits <<byte, bit>> of self.io in which cell_io_at(cell_pos) reads the
\* column1 and column2 bits: (io[cell_pos / 8] >> cell_pos % 8) & 0b11
ColumnSlot(self, cell_pos) ==
    {<<(cell_pos \div 8) + 1, b>> : b \in {cell_pos % 8, (cell_pos % 8) + 1} \cap Byte}

\* the bits <<byte, bit>> reset_row_io clears: io[len - 1] &= !(0b11 << 6)
ScratchSlot(self) == {<<len(self), b>> : b \in ShL({0, 1}, 6)}

\* self.get_value_vec(); the u8 product byte * 8 overflows for byte >= 32, which
\* panics in a build with overflow checks and wraps in one without: wrap ranges
\* over both
IOGetValueVec ==
    /\ fio.op = None
    /\ fio.self # NoBuffer
    /\ \E wrap \in BOOLEAN :
        fio' = [fio EXCEPT !.op = "get_value_vec", !.before = fio.self,
                           !.out = get_value_vec(fio.self, wrap)]
    /\ UNCHANGED <<order_arg, order_res, cell, built, arg, trace, ret, fpga, ev, threads, given>>

NextIO == IOSet \/ IOReset \/ IOGetValueVec

SpecIO == InitIO /\ [][NextIO]_vars

----------------------------------------------------------------------------
(* Concurrent eval_cell calls on one shared Cell, interleaved between line steps *)

\* the shared cells and the inputs of the calls
ParCells == TestCells \cup Palette
ParInputs == {{}, {COLUMN_1, ROW_1}, {COLUMN_2, ROW_2}, CellIOAll}

\* a thread that has not called yet
IdleThread(input) ==
    [pc |-> "idle", arg |-> input, rtm |-> NoCell, io |-> {}, k |-> 0, ret |-> {}]

InitPar ==
    /\ order_arg = <<>>
    /\ order_res = NoResult
    /\ cell \in ParCells
    /\ built = "Cell::new"
    /\ arg = {}
    /\ trace = <<>>
    /\ ret = None
    /\ fpga = NoGrid
    /\ ev = NoEval
    /\ fio = NoIO
    /\ \E inputs \in [1..NumThreads -> ParInputs] :
        threads = [t \in 1..NumThreads |-> IdleThread(inputs[t])]
    /\ given = NoGiven

\* a line step made on the shared cell itself instead of on the thread's clone
ParStep_shared(t) ==
    /\ threads[t].pc = "run"
    /\ threads[t].k <= 4
    /\ LET s == EvalArm(cell, threads[t].io, cell.activation_order[threads[t].k])
       IN  /\ threads' = [threads EXCEPT ![t].rtm = s.rtm, ![t].io = s.io, ![t].k = @ + 1]
           /\ cell' = s.rtm
    /\ UNCHANGED <<order_arg, order_res, built, arg, trace, ret, fpga, ev, fio, given>>

\* thread t enters eval_cell(arg): let mut rtm_cell = self.clone()
ParCall(t) ==
    /\ threads[t].pc = "idle"
    /\ threads' = [threads EXCEPT ![t].pc = "run", ![t].rtm = cell,
                                  ![t].io = threads[t].arg, ![t].k = 1]
    /\ UNCHANGED <<order_arg, order_res, cell, built, arg, trace, ret, fpga, ev, fio, given>>

\* thread t makes one iteration of the loop, on its rtm_cell and its input
ParStep(t) ==
    /\ threads[t].pc = "run"
    /\ threads[t].k <= 4
    /\ LET s == EvalArm(threads[t].rtm, threads[t].io,
                        threads[t].rtm.activation_order[threads[t].k])
       IN  /\ threads' = [threads EXCEPT ![t].rtm = s.rtm, ![t].io = s.io, ![t].k = @ + 1]
           /\ cell' = cell
    /\ UNCHANGED <<order_arg, order_res, built, arg, trace, ret, fpga, ev, fio, given>>

\* thread t leaves the loop and returns input
ParReturn(t) ==
    /\ threads[t].pc = "run"
    /\ threads[t].k = 5
    /\ threads' = [threads EXCEPT ![t].pc = "done", ![t].ret = threads[t].io]
    /\ UNCHANGED <<order_arg, order_res, cell, built, arg, trace, ret, fpga, ev, fio, given>>

NextPar == \E t \in 1..NumThreads : ParCall(t) \/ ParStep(t) \/ ParReturn(t)

SpecPar == InitPar /\ [][NextPar]_vars

----------------------------------------------------------------------------
(* Cells evaluated alone and cells evaluated in a grid *)

Init == InitCell \/ InitGrid

Next == NextCell \/ NextGrid

Spec == Init /\ [][Next]_vars

----------------------------------------------------------------------------
(* Vocabulary of the properties *)

\* an eval_cell call has returned
Returned == Len(trace) > 0

\* the CellIO bit of a line
PortOf(l) == CASE l = Column1 -> COLUMN_1 [] l = Column2 -> COLUMN_2
               [] l = Row1 -> ROW_1 [] l = Row2 -> ROW_2

\* the loop iterations of the recorded call that evaluated one of the lines in L
StepsOf(L) == {k \in 1..(Len(trace) - 1) : trace[k].sel \in L}

\* working flags before / after iteration k, input bit read and output bit written by it
FlagsAt(k) == trace[k].flags
FlagsAfter(k) == trace[k + 1].flags
InBit(k) == B2N(PortOf(trace[k].sel) \in trace[k].io)
OutTrue(k) == PortOf(trace[k].sel) \in trace[k + 1].io

\* number of the flags of S that are set in fl
NumSet(fl, S) == Cardinality(fl \cap S)

JunctionsOf(l) == CASE l = Column1 -> {JC1_R1, JC1_R2} [] l = Column2 -> {JC2_R1, JC2_R2}
                    [] l = Row1 -> {JC1_R1, JC2_R1} [] l = Row2 -> {JC1_R2, JC2_R2}
OutOf(l) == CASE l = Column1 -> C1_OUT [] l = Column2 -> C2_OUT
              [] l = Row1 -> R1_OUT [] l = Row2 -> R2_OUT
NotOf(l) == CASE l = Column1 -> NOT_C1 [] l = Column2 -> NOT_C2

\* 9 + fills + input bit + junction and output flags of the line, from the flags before iteration k
BaseCount(k) ==
    9 + cell.fills[trace[k].sel] + InBit(k)
      + NumSet(FlagsAt(k), JunctionsOf(trace[k].sel) \cup {OutOf(trace[k].sel)})

----------------------------------------------------------------------------
(* C1: eval_cell never changes the Cell it is called on (order, flags, fills), *)
(* no step of an FPGA::eval call changes a cell of the grid, and a repeated    *)
(* eval_cell call on the same cell with the same input returns the same output.*)
C1_EvalFrame ==
    [][/\ cell' = cell
       /\ Returned => ret' = ret
       /\ ev' # ev => fpga' = fpga]_vars

\* a call has returned whose working copy lost flags, and the cell still has them
C1_Witness ==
    /\ Returned
    /\ trace[5].flags # cell.flags
    /\ trace[1].flags = cell.flags
    /\ StillBits \subseteq cell.flags

----------------------------------------------------------------------------
(* C2 (as stated): a column outputs true exactly when its output-latch flag   *)
(* Cx_OUT is set and Row1's still flag is false at that moment, or its block  *)
(* count 9 + fills + input + junction/output flags exceeds 12.                *)
C2_ColumnRuleOutLatch ==
    \A k \in StepsOf({Column1, Column2}) :
        OutTrue(k) <=> \/ (OutOf(trace[k].sel) \in FlagsAt(k) /\ STILL_R1 \notin FlagsAt(k))
                       \/ BaseCount(k) > 12

(* C2 (amended): a column outputs true exactly when its inversion flag NOT_Cx *)
(* is set and Row1's still flag is false at that moment, or its block count   *)
(* 9 + fills + input + (junction flags and Cx_OUT set) exceeds 12.            *)
C2_ColumnRule ==
    \A k \in StepsOf({Column1, Column2}) :
        OutTrue(k) <=> \/ (NotOf(trace[k].sel) \in FlagsAt(k) /\ STILL_R1 \notin FlagsAt(k))
                       \/ BaseCount(k) > 12

\* a column resolves true below the threshold, through its inversion flag and a moved Row1,
\* with its output-latch flag clear
C2_Witness ==
    \E k \in StepsOf({Column1, Column2}) :
        /\ OutTrue(k)
        /\ BaseCount(k) <= 12
        /\ NotOf(trace[k].sel) \in FlagsAt(k)
        /\ OutOf(trace[k].sel) \notin FlagsAt(k)
        /\ STILL_R1 \notin FlagsAt(k)

(* C3: Row1 outputs true exactly when 9 + fills[Row1] + input + (JC1_R1,      *)
(* JC2_R1, R1_OUT set) + NOT_C1 + NOT_C2 exceeds 12, or NOT_C1 is set with    *)
(* STILL_C1 false, or NOT_C2 is set with STILL_C2 false (working flags).      *)
C3_Row1Rule ==
    \A k \in StepsOf({Row1}) :
        OutTrue(k) <=>
            \/ BaseCount(k) + NumSet(FlagsAt(k), {NOT_C1}) + NumSet(FlagsAt(k), {NOT_C2}) > 12
            \/ (NOT_C1 \in FlagsAt(k) /\ STILL_C1 \notin FlagsAt(k))
            \/ (NOT_C2 \in FlagsAt(k) /\ STILL_C2 \notin FlagsAt(k))

\* Row1 resolves true below the threshold because Column2, inverted, has moved
C3_Witness ==
    \E k \in StepsOf({Row1}) :
        /\ OutTrue(k)
        /\ BaseCount(k) + NumSet(FlagsAt(k), NotBits) <= 12
        /\ NOT_C2 \in FlagsAt(k) /\ STILL_C2 \notin FlagsAt(k)
        /\ ~(NOT_C1 \in FlagsAt(k) /\ STILL_C1 \notin FlagsAt(k))

(* C4: Row2 outputs true exactly when 9 + fills[Row2] + input + (JC1_R2,      *)
(* JC2_R2, R2_OUT set in the working flags) exceeds 12; inversion and still   *)
(* flags play no part, and evaluating Row2 changes no still flag.             *)
C4_Row2Rule ==
    \A k \in StepsOf({Row2}) :
        /\ OutTrue(k) <=> BaseCount(k) > 12
        /\ FlagsAfter(k) \cap StillBits = FlagsAt(k) \cap StillBits

\* Row2 resolves false at a count of exactly 12 and loses a junction, although both
\* columns are inverted and Row1 has already moved
C4_Witness ==
    \E k \in StepsOf({Row2}) :
        /\ ~OutTrue(k)
        /\ BaseCount(k) = 12
        /\ NotBits \subseteq FlagsAt(k)
        /\ STILL_R1 \notin FlagsAt(k)
        /\ FlagsAfter(k) # FlagsAt(k)

\* position of line l in the activation order of `cell`
PosOf(l) == CHOOSE k \in 1..4 : cell.activation_order[k] = l

\* the activation order of `cell` with lines a and b exchanged
SwapOrder(a, b) ==
    [k \in 1..4 |-> IF cell.activation_order[k] = a THEN b
                    ELSE IF cell.activation_order[k] = b THEN a
                    ELSE cell.activation_order[k]]

\* the cell of C5: Column1 inverted, nothing else configured, no fills; all-false input
C5_Case == /\ Returned
           /\ cell.flags = {NOT_C1} \cup StillBits
           /\ cell.fills = FillsDefault
           /\ arg = {}

(* C5: order sensitivity. For the cell whose only configuration flag is the   *)
(* Column1 inversion flag, with no fills and all-false input, the Row1 output *)
(* is true under every order that evaluates Column1 before Row1 and false     *)
(* under every order that evaluates Row1 before Column1: swapping Row1 and    *)
(* Column1 in the activation order changes the Row1 output bit.               *)
C5_OrderSensitive ==
    C5_Case => ((ROW_1 \in ret) <=> (PosOf(Column1) < PosOf(Row1)))

\* the cell evaluated with Row1 first returns Row1 false, and the same cell with only
\* Row1 and Column1 exchanged in the order returns Row1 true
C5_Witness ==
    /\ C5_Case
    /\ cell.activation_order = <<Row1, Column1, Column2, Row2>>
    /\ ROW_1 \notin ret
    /\ ROW_1 \in eval_cell([cell EXCEPT !.activation_order = SwapOrder(Row1, Column1)], arg)

----------------------------------------------------------------------------
\* no junction flag and no output-latch flag is set in `cell`
NoJunctionNoOut == cell.flags \cap (JunctionBits \cup OutBits) = {}

(* C6 (as stated): with no junction and no output-latch flag set, a line with *)
(* input bit 0 outputs true iff fills[line] > 3, for each of the four lines,  *)
(* every order and every setting of the remaining flags.                      *)
C6_ThresholdAnyFlags ==
    (Returned /\ NoJunctionNoOut) =>
        \A l \in Selector :
            PortOf(l) \notin arg => ((PortOf(l) \in ret) <=> (cell.fills[l] > 3))

\* the inversion flags that enter the rule of line l
InversionOf(l) == CASE l = Column1 -> {NOT_C1} [] l = Column2 -> {NOT_C2}
                    [] l = Row1 -> {NOT_C1, NOT_C2} [] l = Row2 -> {}

(* C6 (amended): with no junction and no output-latch flag set, a line with   *)
(* input bit 0 whose rule no set inversion flag enters (NOT_Cx for Column x,  *)
(* NOT_C1 and NOT_C2 for Row1, none for Row2) outputs true iff fills[line] >  *)
(* 3, for every order and every setting of the remaining flags.               *)
C6_Threshold ==
    (Returned /\ NoJunctionNoOut) =>
        \A l \in Selector :
            (PortOf(l) \notin arg /\ cell.flags \cap InversionOf(l) = {})
                => ((PortOf(l) \in ret) <=> (cell.fills[l] > 3))

\* Column1 with input 0 is true at fills 4 and Row2 with input 0 is false at fills 0,
\* in a cell whose other column is inverted
C6_Witness ==
    /\ Returned /\ NoJunctionNoOut
    /\ NOT_C2 \in cell.flags /\ NOT_C1 \notin cell.flags
    /\ arg = {}
    /\ cell.fills[Column1] = 4 /\ COLUMN_1 \in ret
    /\ ROW_2 \notin ret

----------------------------------------------------------------------------
\* the scenario of C7
C7_Case == /\ Returned
           /\ cell = CellNew(<<Row1, Column1, Column2, Row2>>, {NOT_C1}, FillsNew(0, 0, 5, 0))
           /\ arg = CellIONew(FALSE, FALSE, FALSE, FALSE)

(* C7 (as stated): only NOT_C1 set, fills Row1 = 5, order Row1, Column1,      *)
(* Column2, Row2, all-false input: eval_cell returns column1 = true and       *)
(* row1 = true.                                                               *)
C7_ScenarioBothTrue == C7_Case => (COLUMN_1 \in ret /\ ROW_1 \in ret)

(* C7 (amended): in that scenario eval_cell returns row1 = true and           *)
(* column1 = false (column2 and row2 false as well).                          *)
C7_Scenario == C7_Case => ret = CellIONew(FALSE, FALSE, TRUE, FALSE)

C7_Witness == C7_Case /\ ROW_1 \in ret

----------------------------------------------------------------------------
(* C8: with no junction flag and no inversion flag set, every line's output   *)
(* equals (9 + fills[line] + own input bit + own output-latch flag > 12),     *)
(* whatever the order and the other lines; with all fills 0 the output is     *)
(* all-false for every input.                                                 *)
C8_IndependentLines ==
    (Returned /\ cell.flags \cap (JunctionBits \cup NotBits) = {}) =>
        /\ \A l \in Selector :
              (PortOf(l) \in ret) <=>
                  (9 + cell.fills[l] + B2N(PortOf(l) \in arg) + B2N(OutOf(l) \in cell.flags) > 12)
        /\ (cell.fills = FillsDefault => ret = {})

\* one line is true only thanks to its own input and own output flag, while the other
\* lines, given input too, stay false
C8_Witness ==
    /\ Returned
    /\ cell.flags = {C1_OUT} \cup StillBits
    /\ cell.fills = FillsNew(2, 0, 0, 0)
    /\ arg = CellIOAll
    /\ ret = {COLUMN_1}

----------------------------------------------------------------------------
(* C9 (as stated): every construction path - CellFlags::default,             *)
(* from_bits_checked, Cell::new, Cell::default and the reconstruction of a    *)
(* cell from its stored flags word - yields STILL_C1, STILL_C2 and STILL_R1   *)
(* all set, and no eval_cell pass starts with a still bit clear.              *)
C9_StillAlwaysSet ==
    /\ cell # NoCell => StillBits \subseteq cell.flags
    /\ Returned => StillBits \subseteq trace[1].flags

----------------------------------------------------------------------------
\* every selector occurs exactly once in the array
EachOnce(a) == \A l \in Selector : Cardinality({k \in 1..4 : a[k] = l}) = 1

(* C10: ActivationOrder::new returns Ok for each of the 24 arrays holding     *)
(* Column1, Column2, Row1 and Row2 exactly once, and the duplicate error,     *)
(* carrying no value, for each of the 232 other arrays of four selectors.     *)
C10_PermutationsOnly ==
    /\ order_res # NoResult =>
        IF EachOnce(order_arg)
        THEN order_res.tag = "Ok"
        ELSE /\ order_res.tag = "Err"
             /\ order_res.msg = "Duplicate enum variants not allowed"
             /\ "val" \notin DOMAIN order_res
    /\ (order_res = NoResult /\ cell = NoCell) =>
        /\ Cardinality({a \in OrderArrays : ActivationOrderNew(a).tag = "Ok"}) = 24
        /\ Cardinality({a \in OrderArrays : ActivationOrderNew(a).tag = "Err"}) = 232
        /\ \A a \in OrderArrays : ActivationOrderNew(a).tag = "Err" <=> ~EachOnce(a)

\* an array with exactly one repeated selector was rejected
C10_Witness ==
    /\ order_res.tag = "Err"
    /\ DistinctLen(order_arg) = 3

----------------------------------------------------------------------------
(* C11: a successful ActivationOrder::new stores the argument position by     *)
(* position, so that different permutations give different values and         *)
(* eval_cell steps the lines in the order the caller gave; the default order   *)
(* is Column1, Column2, Row1, Row2.                                            *)
C11_OrderVerbatim ==
    /\ order_res.tag = "Ok" =>
        /\ \A k \in 1..4 : order_res.val[k] = order_arg[k]
        /\ \A b \in OrderArrays :
            (b # order_arg /\ ActivationOrderNew(b).tag = "Ok")
                => ActivationOrderNew(b).val # order_res.val
    /\ (built = "Cell::new" /\ Returned) =>
        \A k \in 1..4 : trace[k].sel = order_arg[k]
    /\ built = "Cell::default" =>
        cell.activation_order = <<Column1, Column2, Row1, Row2>>
    /\ ActivationOrderDefault = <<Column1, Column2, Row1, Row2>>

\* a cell built with the reversed order was evaluated Row2, Row1, Column2, Column1
C11_Witness ==
    /\ order_arg = <<Row2, Row1, Column2, Column1>>
    /\ built = "Cell::new"
    /\ Returned
    /\ <<trace[1].sel, trace[2].sel, trace[3].sel, trace[4].sel>> = order_arg

----------------------------------------------------------------------------
\* the size check of an FPGA::eval call has been made
Checked == ev.pc \in {"Err", "loop", "Ok"}

(* C12 (as stated): for a grid of width w and a buffer built for n signal     *)
(* bits, FPGA::eval returns the size-mismatch error exactly when n + 2        *)
(* differs from 2*w + 2, and goes on to return Ok when n = 2*w.               *)
C12_SizeCheck ==
    Checked => (ev.pc = "Err" <=> ev.bits + 2 # 2 * fpga.width + 2)

----------------------------------------------------------------------------
(* C13: when FPGA::eval rejects a buffer for its size, it returns before any  *)
(* cell is evaluated and before any bit of the buffer is written: no          *)
(* evaluation step is made, then or later, and the grid is unchanged.         *)
C13_RejectClean ==
    [][/\ ev'.pc = "Err" =>
            /\ fpga' = fpga
            /\ ev'.n = 0
            /\ ev'.log = <<>>
            /\ ev'.input = ev'.passed
       /\ ev.pc = "Err" => ev' = ev]_vars

\* a buffer with a signal bit set was rejected on a grid with an edited cell
C13_Witness ==
    /\ ev.pc = "Err"
    /\ \E p \in DOMAIN ev.passed.io : ev.passed.io[p] # {}
    /\ \E k \in DOMAIN fpga.data : fpga.data[k] # CellDefault

----------------------------------------------------------------------------
\* an FPGA::eval call passed the size check
Running == ev.pc \in {"loop", "Ok"}

\* the cell of serpentine step k (k = 0, 1, ...) on a grid of width w
SerpentineRow(k, w) == k \div w
SerpentineCol(k, w) == IF (k \div w) % 2 = 0 THEN k % w ELSE w - 1 - (k % w)

(* C14: in a successful FPGA::eval, step k evaluates the cell at row k div    *)
(* width and column k mod width (even rows) or width-1-(k mod width) (odd     *)
(* rows): every cell exactly once, rows in increasing order and alternating   *)
(* direction, each row starting in the column where the previous one ended,   *)
(* and every fetch is inside the grid.                                        *)
C14_Serpentine ==
    /\ ev.pc # "panic"
    /\ Running =>
        /\ Len(ev.log) = ev.n
        /\ \A k \in 1..Len(ev.log) :
            /\ ev.log[k].row = SerpentineRow(k - 1, fpga.width)
            /\ ev.log[k].col = SerpentineCol(k - 1, fpga.width)
            /\ ev.log[k].row < fpga.height
            /\ ev.log[k].col < fpga.width
            /\ (k > 1 /\ ev.log[k].row # ev.log[k - 1].row) =>
                /\ ev.log[k].row = ev.log[k - 1].row + 1
                /\ ev.log[k].col = ev.log[k - 1].col
        /\ ev.n < fpga.width * fpga.height =>
            /\ ev.pc = "loop"
            /\ ev.j = SerpentineRow(ev.n, fpga.width)
            /\ ev.i = SerpentineCol(ev.n, fpga.width)
            /\ get_cell(fpga, ev.j, ev.i) # NoCell
        /\ ev.pc = "Ok" =>
            \A r \in 0..(fpga.height - 1), c \in 0..(fpga.width - 1) :
                Cardinality({k \in 1..Len(ev.log) :
                                ev.log[k].row = r /\ ev.log[k].col = c}) = 1

\* a pass over two rows ended: the second row ran right to left
C14_Witness ==
    /\ ev.pc = "Ok"
    /\ fpga.height = 2
    /\ ev.log[fpga.width + 1].col = fpga.width - 1
    /\ ev.log[2 * fpga.width].col = 0

----------------------------------------------------------------------------
\* the two row scratch bits as cell_io_at reads them, at any column
ScratchOf(buffer) == cell_io_at(buffer, 0) \cap {ROW_1, ROW_2}

----------------------------------------------------------------------------
RowBits == {ROW_1, ROW_2}
ColumnBits == {COLUMN_1, COLUMN_2}

(* C16 (as stated): within one row of a grid pass, the row1/row2 bits a cell  *)
(* outputs are the row1/row2 input bits given to the next cell evaluated in   *)
(* that row.                                                                  *)
C16_RowCarry ==
    Running =>
        \A k \in 2..Len(ev.log) :
            ev.log[k].row = ev.log[k - 1].row =>
                ev.log[k].in \cap RowBits = ev.log[k - 1].out \cap RowBits

----------------------------------------------------------------------------
(* C17 (as stated): in a grid pass the column1/column2 input bits of the cell *)
(* at (r, c) are the column1/column2 output bits of the cell at (r-1, c) for  *)
(* r >= 1 and the caller-supplied bits of column c for r = 0; the evaluation  *)
(* of cells of other columns in between does not alter them.                  *)
C17_ColumnCarry ==
    Running =>
        \A k \in 1..Len(ev.log) :
            IF ev.log[k].row = 0
            THEN ev.log[k].in \cap ColumnBits
                    = cell_io_at(ev.passed, ev.log[k].col) \cap ColumnBits
            ELSE \E m \in 1..(k - 1) :
                    /\ ev.log[m].row = ev.log[k].row - 1
                    /\ ev.log[m].col = ev.log[k].col
                    /\ ev.log[k].in \cap ColumnBits = ev.log[m].out \cap ColumnBits

----------------------------------------------------------------------------
(* C18 (as stated): after set(c, v), cell_io_at(c) returns v, for every       *)
(* column c of the buffer and each of the 16 CellIO values v.                 *)
C18_RoundTrip ==
    fio.op = "set" => cell_io_at(fio.self, fio.pos) = fio.value

----------------------------------------------------------------------------
(* C19 (as stated): set(c, v) changes only column c's slot and the scratch    *)
(* slot: for every other column d, the column1/column2 bits cell_io_at(d)     *)
(* returns are the same before and after the write.                           *)
C19_SetFrame ==
    fio.op = "set" =>
        \A d \in ColumnsOf(fio.self) \ {fio.pos} :
            cell_io_at(fio.self, d) \cap ColumnBits
                = cell_io_at(fio.before, d) \cap ColumnBits

----------------------------------------------------------------------------
(* C20 (as stated): reset_row_io sets both scratch bits to zero and leaves    *)
(* every column's persistent bits unchanged, for every grid width whose       *)
(* buffer eval accepts: the scratch slot in the final byte overlaps no        *)
(* column's slot.                                                             *)
C20_ResetFrame ==
    /\ fio.op = "reset_row_io" =>
        /\ ScratchOf(fio.self) = {}
        /\ \A c \in ColumnsOf(fio.self) :
            cell_io_at(fio.self, c) \cap ColumnBits
                = cell_io_at(fio.before, c) \cap ColumnBits
    /\ fio.self # NoBuffer =>
        \A c \in ColumnsOf(fio.self) :
            ColumnSlot(fio.self, c) \cap ScratchSlot(fio.self) = {}

----------------------------------------------------------------------------
(* C21 (as stated): for every boolean sequence s, converting s to an FpgaIO   *)
(* and back with get_value_vec completes without failure and returns a        *)
(* sequence equal to s.                                                       *)
C21_BoolRoundTrip ==
    (fio.ctor = "from" /\ fio.op = "get_value_vec") =>
        /\ fio.out.tag = "Ok"
        /\ fio.out.vec = fio.src

----------------------------------------------------------------------------
(* C22 (as stated): in a buffer converted from a boolean sequence s,          *)
(* cell_io_at(c) returns column1 = s[2c] and column2 = s[2c+1] for every      *)
(* column c (s indexed from 0), distinct columns reading disjoint pairs.      *)
C22_TwoBitsPerColumn ==
    (fio.ctor = "from" /\ fio.op = None) =>
        \A c \in 0..((fio.bits \div 2) - 1) :
            /\ COLUMN_1 \in cell_io_at(fio.self, c) <=> fio.src[2 * c + 1]
            /\ COLUMN_2 \in cell_io_at(fio.self, c) <=> fio.src[2 * c + 2]

----------------------------------------------------------------------------
\* a buffer was built and no call was made on it yet
Fresh == fio.self # NoBuffer /\ fio.op = None

(* C23: FpgaIO::new(n) yields ceil((n+2)/8) bytes, every bit zero, and        *)
(* trim = n mod 8 (n = 6, 8, 20: lengths 1, 2, 3 and trims 6, 0, 4); the      *)
(* conversion of n booleans yields the same length and trim.                  *)
C23_NewShape ==
    Fresh =>
        /\ len(fio.self) = (fio.bits + 2 + 7) \div 8
        /\ fio.self.trim = fio.bits % 8
        /\ fio.ctor = "new" => \A p \in 1..len(fio.self) : fio.self.io[p] = {}
        /\ fio.ctor = "from" =>
            /\ len(fio.self) = len(FpgaIONew(Len(fio.src)))
            /\ fio.self.trim = FpgaIONew(Len(fio.src)).trim
        /\ (fio.ctor = "new" /\ fio.bits = 6) => (len(fio.self) = 1 /\ fio.self.trim = 6)
        /\ (fio.ctor = "new" /\ fio.bits = 8) => (len(fio.self) = 2 /\ fio.self.trim = 0)
        /\ (fio.ctor = "new" /\ fio.bits = 20) => (len(fio.self) = 3 /\ fio.self.trim = 4)

\* FpgaIO::new(20): three zero bytes, trim 4
C23_Witness ==
    /\ Fresh
    /\ fio.ctor = "new"
    /\ fio.bits = 20
    /\ fio.self = [io |-> <<{}, {}, {}>>, trim |-> 4]

----------------------------------------------------------------------------
\* the bits of the final byte that hold neither a signal bit nor a scratch bit
PaddingOf(self, bits) ==
    Cardinality({b \in Byte : /\ (len(self) - 1) * 8 + b >= bits
                              /\ <<len(self), b>> \notin ScratchSlot(self)})

(* C24 (as stated): for every buffer built by FpgaIO::new or converted from a *)
(* boolean sequence, trim equals the number of bits of the final byte that    *)
(* are unused padding, holding neither a signal bit nor a scratch bit.        *)
C24_TrimIsPadding ==
    Fresh => fio.self.trim = PaddingOf(fio.self, fio.bits)

(* C24 (amended): trim is the number of signal bits modulo 8, that is the     *)
(* number of signal bits in the last, partly filled group of eight; it is the *)
(* padding count only when the two happen to coincide.                        *)
C24_TrimIsSignalTail ==
    Fresh =>
        /\ fio.self.trim = Cardinality({k \in 0..(fio.bits - 1) : k \div 8 = fio.bits \div 8})
        /\ fio.self.trim + 8 * (fio.bits \div 8) = fio.bits

\* a buffer built from booleans whose trim differs from its padding
C24_Witness ==
    /\ Fresh
    /\ fio.ctor = "from"
    /\ fio.self.trim = 6
    /\ PaddingOf(fio.self, fio.bits) = 0

----------------------------------------------------------------------------
\* a grid exists
HasGrid == ev.pc # None

\* coordinates inside and outside every grid of the model
Rows == 0..(MaxHeight + 1)
Cols == 0..(MaxWidth + 1)

----------------------------------------------------------------------------
(* C26: FPGA::new(width, height) creates exactly width*height cells, each     *)
(* with the order Column1, Column2, Row1, Row2, all four fills 0 and no flag  *)
(* set but the three still bits; width and height never change afterwards    *)
(* under get_cell, get_mut or eval.                                           *)
C26_NewGrid ==
    /\ HasGrid =>
        /\ Len(fpga.data) = fpga.width * fpga.height
        /\ \A k \in 1..Len(fpga.data) :
            /\ fpga.data[k].activation_order = <<Column1, Column2, Row1, Row2>>
            /\ \A l \in Selector : fpga.data[k].fills[l] = 0
            /\ fpga.data[k].flags = {STILL_C1, STILL_C2, STILL_R1}
    /\ [][HasGrid =>
            /\ fpga'.width = fpga.width
            /\ fpga'.height = fpga.height
            /\ Len(fpga'.data) = Len(fpga.data)]_vars

\* a pass over an edited 4 x 2 grid ended, the grid still 4 x 2 with 8 cells
C26_Witness ==
    /\ ev.pc = "Ok"
    /\ fpga.width = 4
    /\ fpga.height = 2
    /\ Len(fpga.data) = 8
    /\ \E k \in 1..8 : fpga.data[k] # CellDefault

----------------------------------------------------------------------------
(* C27: eval_cell calls on the same Cell running concurrently, interleaved   *)
(* at any point between line steps, each return what the same call returns    *)
(* alone: a step changes only the working copy of the thread that makes it,   *)
(* and the shared Cell is only read.                                          *)
C27_ConcurrentCalls ==
    [][/\ cell' = cell
       /\ \A t \in DOMAIN threads :
            threads'[t].pc = "done" => threads'[t].ret = eval_cell(cell, threads'[t].arg)
       /\ \A t, u \in DOMAIN threads :
            t # u => (threads'[t] = threads[t] \/ threads'[u] = threads[u])]_vars

\* one call has returned while another is in the middle of its pass, both with
\* working flags that differ from the shared cell's
C27_Witness ==
    /\ threads # <<>>
    /\ threads[1].pc = "done"
    /\ threads[2].pc = "run"
    /\ threads[2].k = 3
    /\ threads[1].rtm.flags # cell.flags
    /\ threads[2].rtm.flags # cell.flags
    /\ threads[1].ret # threads[2].io

----------------------------------------------------------------------------
(* C28: eval_cell completes without panic or arithmetic overflow for every     *)
(* cell with a valid order, any flags, any fills in 0..255 and any input:      *)
(* every line's block count fits the 8-bit counter, so a line with larger      *)
(* fills is never evaluated as having a smaller count.                         *)
C28_NoOverflow ==
    trace # <<>> =>
        /\ Len(trace) = 5
        /\ trace[5].sel = None
        /\ \A k \in 1..4 :
             ArmBlocks([cell EXCEPT !.flags = trace[k].flags], trace[k].io, trace[k].sel) < U8

----------------------------------------------------------------------------
\* the u16 whose set bits are the positions in S
RECURSIVE WordOf(_)
WordOf(S) ==
    IF S = {} THEN 0
    ELSE LET k == CHOOSE x \in S : TRUE IN 2^k + WordOf(S \ {k})

\* bits 0-9, the configuration bits (mask 0x03FF)
ConfigBits == JunctionBits \cup NotBits \cup OutBits

(* C29: from_bits_checked(bits), for every 16-bit value, returns flags equal   *)
(* to (bits AND 0x03FF) OR 0x1C00: bits 13-15 are dropped, the ten             *)
(* configuration bits 0-9 are kept as given and the three still bits 10-12 are *)
(* set; Cell::new keeps the ten configuration bits, the order and the fills    *)
(* verbatim and forces the still bits.                                         *)
C29_CheckedFlags ==
    /\ built = "from_bits_checked" =>
        /\ WordOf(cell.flags) = (WordOf(given.flags) % 1024) + 7168
        /\ cell.flags \cap ConfigBits = given.flags \cap ConfigBits
        /\ cell.flags \cap (U16Bits \ ConfigBits) = StillBits
    /\ built = "Cell::new" =>
        /\ cell.flags \cap ConfigBits = given.flags \cap ConfigBits
        /\ cell.flags \cap (U16Bits \ ConfigBits) = StillBits
        /\ cell.activation_order = order_res.val
        /\ cell.fills = given.fills

\* from_bits_checked has returned for a word with unknown bits and
\* configuration bits set and no still bit set
C29_Witness ==
    /\ built = "from_bits_checked"
    /\ given.flags \cap (U16Bits \ CellFlagsAll) # {}
    /\ given.flags \cap ConfigBits \notin {{}, ConfigBits}
    /\ given.flags \cap StillBits = {}
    /\ StillBits \subseteq cell.flags

----------------------------------------------------------------------------
(* C30: every FPGA::eval call that passes the size check terminates: it        *)
(* performs exactly width*height cell evaluations, ends with the row index     *)
(* equal to height and returns Ok with the buffer; every eval_cell call in it  *)
(* performs its four line steps and returns.                                   *)
C30_Terminates ==
    /\ ev.pc # "panic"
    /\ ev.pc = "loop" => ev.n <= fpga.width * fpga.height /\ Len(ev.log) = ev.n
    /\ ev.pc = "Ok" =>
        /\ ev.n = fpga.width * fpga.height
        /\ Len(ev.log) = fpga.width * fpga.height
        /\ ev.j = fpga.height

----------------------------------------------------------------------------
\* the still flag a line clears when it resolves false (Row2 has none)
StillOf(l) == CASE l = Column1 -> {STILL_C1} [] l = Column2 -> {STILL_C2}
                [] l = Row1 -> {STILL_R1} [] l = Row2 -> {}

\* the iteration of the recorded call that evaluates line l
StepOf(l) == CHOOSE k \in 1..4 : trace[k].sel = l

\* the junction flag shared by column c and row r
JunctionOf(c, r) == JunctionsOf(c) \cap JunctionsOf(r)

(* C31: during one eval_cell pass the working flags only lose bits: a line     *)
(* that resolves false clears its two junction flags (and its own still flag   *)
(* for Column1, Column2 and Row1; none for Row2), a line that resolves true    *)
(* changes no flag, no step sets a flag or changes an inversion or output      *)
(* flag; so a junction is still set for the later-evaluated of its two lines   *)
(* only if the earlier-evaluated one resolved true.                            *)
C31_FlagsOnlyLose ==
    Returned =>
        /\ \A k \in 1..4 :
             /\ FlagsAfter(k) \subseteq FlagsAt(k)
             /\ OutTrue(k) => FlagsAfter(k) = FlagsAt(k)
             /\ ~OutTrue(k) =>
                    FlagsAfter(k) = FlagsAt(k) \ (JunctionsOf(trace[k].sel) \cup StillOf(trace[k].sel))
             /\ FlagsAfter(k) \cap (NotBits \cup OutBits) = FlagsAt(k) \cap (NotBits \cup OutBits)
        /\ \A c \in {Column1, Column2}, r \in {Row1, Row2} :
             LET first == IF StepOf(c) < StepOf(r) THEN StepOf(c) ELSE StepOf(r)
                 later == IF StepOf(c) < StepOf(r) THEN StepOf(r) ELSE StepOf(c)
             IN  JunctionOf(c, r) \subseteq FlagsAt(later) =>
                    (OutTrue(first) /\ JunctionOf(c, r) \subseteq cell.flags)

\* a pass in which a column resolved false with both its junctions set, and
\* a row evaluated after it no longer had the junction in its count, while
\* another line resolved true and kept its flags
C31_Witness ==
    /\ Returned
    /\ \E c \in {Column1, Column2}, r \in {Row1, Row2} :
         /\ StepOf(c) < StepOf(r)
         /\ JunctionsOf(c) \subseteq FlagsAt(StepOf(c))
         /\ ~OutTrue(StepOf(c))
         /\ JunctionOf(c, r) \cap FlagsAt(StepOf(r)) = {}
    /\ \E k \in 1..4 : OutTrue(k) /\ JunctionsOf(trace[k].sel) \cap FlagsAt(k) # {}

----------------------------------------------------------------------------
\* at column step k, Row1 was evaluated earlier in the pass and resolved false
Row1FellBefore(k) == StepOf(Row1) < k /\ ~OutTrue(StepOf(Row1))

(* C32: when a column's inversion flag NOT_Cx is set and Row1 was evaluated    *)
(* earlier in the same pass and resolved false, the column outputs true        *)
(* whatever its block count; when NOT_Cx is clear, or Row1 comes later in the  *)
(* order, or Row1 resolved true, the column's output is exactly (count > 12).  *)
C32_NotGate ==
    Returned =>
        \A k \in StepsOf({Column1, Column2}) :
            IF NotOf(trace[k].sel) \in FlagsAt(k) /\ Row1FellBefore(k)
            THEN OutTrue(k)
            ELSE OutTrue(k) <=> BaseCount(k) > 12

----------------------------------------------------------------------------
(* C33: for every cell built by Cell::new with the inversion flag NOT_Cx set,  *)
(* every order, fills and input, the output of eval_cell never has both column *)
(* x and Row1 false: whichever of the two lines is evaluated first, if it      *)
(* resolves false the other is forced true.                                    *)
C33_NotPairNeverBothFalse ==
    (Returned /\ built = "Cell::new") =>
        \A c \in {Column1, Column2} :
            NotOf(c) \in cell.flags =>
                /\ PortOf(c) \in ret \/ ROW_1 \in ret
                /\ LET first == IF StepOf(c) < StepOf(Row1) THEN StepOf(c) ELSE StepOf(Row1)
                       later == IF StepOf(c) < StepOf(Row1) THEN StepOf(Row1) ELSE StepOf(c)
                   IN  ~OutTrue(first) => OutTrue(later)

\* a returned pass of a cell with NOT_C1 in which Row1 came first and resolved
\* false, and Column1 was forced true with a count of at most 12
C33_Witness ==
    /\ Returned /\ built = "Cell::new"
    /\ NOT_C1 \in cell.flags
    /\ StepOf(Row1) < StepOf(Column1)
    /\ ROW_1 \notin ret /\ COLUMN_1 \in ret
    /\ BaseCount(StepOf(Column1)) <= 12

----------------------------------------------------------------------------
\* the recorded call ran its four iterations and returned
Completed == Len(trace) = 5 /\ trace[5].sel = None

(* C34: eval_cell is idempotent: for every cell and every input x,             *)
(* eval_cell(eval_cell(x)) = eval_cell(x).                                     *)
C34_Idempotent ==
    trace # <<>> => (Completed /\ eval_cell(cell, ret) = ret)

(* C35: for every cell with neither inversion flag set, eval_cell is monotone  *)
(* in its input: if every port bit of input a is also set in input b, every    *)
(* port bit of eval_cell(a) is also set in eval_cell(b).                       *)
C35_Monotone ==
    (trace # <<>> /\ cell.flags \cap NotBits = {}) =>
        /\ Completed
        /\ \A b \in SUBSET CellIOAll : arg \subseteq b => ret \subseteq eval_cell(cell, b)

----------------------------------------------------------------------------
(* The two other eval_cell implementations of the repository *)

\* src/fpga/cell.rs, one arm of eval_cell's match: the line reads its bit of the
\* input passed in and writes its bit of a separate output. count, sim_gate,
\* sim_row1 and sim_row2 of that file have the text of the crate's
SnapshotArm(rtm, input, output, p) ==
    LET r == CASE p = Column1 -> sim_gate(rtm, Contains(input, COLUMN_1), TG_C1)
               [] p = Column2 -> sim_gate(rtm, Contains(input, COLUMN_2), TG_C2)
               [] p = Row1    -> sim_row1(rtm, Contains(input, ROW_1))
               [] p = Row2    -> sim_row2(rtm, Contains(input, ROW_2))
        bit == CASE p = Column1 -> COLUMN_1
                 [] p = Column2 -> COLUMN_2
                 [] p = Row1    -> ROW_1
                 [] p = Row2    -> ROW_2
    IN  [rtm |-> r.self, output |-> SetFlag(output, bit, r.out)]

\* src/fpga/cell.rs, the loop of eval_cell from entry k of the order on
RECURSIVE SnapshotFrom(_, _, _, _)
SnapshotFrom(rtm, input, output, k) ==
    IF k > 4 THEN output
    ELSE LET s == SnapshotArm(rtm, input, output, rtm.activation_order[k])
         IN  SnapshotFrom(s.rtm, input, s.output, k + 1)

\* src/fpga/cell.rs, Cell::eval_cell: output starts with its four fields true
snapshot_eval_cell(self, input) == SnapshotFrom(self, input, CellIOAll, 1)

\* contains_as_u8 without the shift: the masked bits as they are
contains_as_u8_unshifted(io, flag) == ByteVal(io \cap {flag})

\* src/simulator_core/cell.rs, CellIO::contains_as_u8:
\* (*self & flag).bits() >> flag.bits().trailing_zeros()
contains_as_u8(io, flag) == ByteVal(ShR(io \cap {flag}, flag))

\* src/simulator_core/cell.rs, the target groups: they carry the line's port
TableC1 == [target |-> 0, cell_io |-> COLUMN_1,
            flags |-> <<JC1_R1, JC1_R2, C1_OUT, NOT_C1, STILL_C1>>]
TableC2 == [target |-> 1, cell_io |-> COLUMN_2,
            flags |-> <<JC2_R1, JC2_R2, C2_OUT, NOT_C2, STILL_C2>>]
TableR1 == [target |-> 2, cell_io |-> ROW_1, flags |-> <<JC1_R1, JC2_R1, R1_OUT>>]
TableR2 == [target |-> 3, cell_io |-> ROW_2, flags |-> <<JC1_R2, JC2_R2, R2_OUT>>]

\* src/simulator_core/cell.rs, From<TargetGroup<5>> for TargetGroup<3>
Table3From5(src) ==
    [target |-> src.target, cell_io |-> src.cell_io, flags |-> SubSeq(src.flags, 1, 3)]

\* src/simulator_core/cell.rs, Cell::count: takes the whole port vector
table_count(self, io, group) ==
    (FIXED_BLOCKS
        + self.fills[group.target]
        + contains_as_u8(io, group.cell_io)
        + B2N(Contains(self.flags, group.flags[1]))
        + B2N(Contains(self.flags, group.flags[2]))
        + B2N(Contains(self.flags, group.flags[3]))) % U8

\* src/simulator_core/cell.rs, Cell::sim_column: writes the port vector itself
table_sim_column(self, io, group) ==
    LET cnt == table_count(self, io, Table3From5(group))
        out == (Contains(self.flags, group.flags[4])
                    /\ ~Contains(self.flags, STILL_R1))
               \/ cnt > 12
        cleared == SetFlag(SetFlag(SetFlag(self.flags, group.flags[1], FALSE),
                                   group.flags[2], FALSE),
                           group.flags[5], FALSE)
    IN  [self |-> IF ~out THEN [self EXCEPT !.flags = cleared] ELSE self,
         io |-> SetFlag(io, group.cell_io, out)]

table_sim_col1(self, io) == table_sim_column(self, io, TableC1)
table_sim_col2(self, io) == table_sim_column(self, io, TableC2)

\* src/simulator_core/cell.rs, Cell::sim_row1
table_sim_row1(self, io) ==
    LET cnt == (table_count(self, io, TableR1)
                + B2N(Contains(self.flags, NOT_C1))
                + B2N(Contains(self.flags, NOT_C2))) % U8
        out == cnt > 12
               \/ (Contains(self.flags, NOT_C1) /\ ~Contains(self.flags, STILL_C1))
               \/ (Contains(self.flags, NOT_C2) /\ ~Contains(self.flags, STILL_C2))
        cleared == SetFlag(SetFlag(SetFlag(self.flags, JC1_R1, FALSE),
                                   JC2_R1, FALSE),
                           STILL_R1, FALSE)
    IN  [self |-> IF ~out THEN [self EXCEPT !.flags = cleared] ELSE self,
         io |-> SetFlag(io, ROW_1, out)]

\* src/simulator_core/cell.rs, Cell::sim_row2
table_sim_row2(self, io) ==
    LET cnt == table_count(self, io, TableR2)
        out == cnt > 12
        cleared == SetFlag(SetFlag(self.flags, JC1_R2, FALSE), JC2_R2, FALSE)
    IN  [self |-> IF ~out THEN [self EXCEPT !.flags = cleared] ELSE self,
         io |-> SetFlag(io, ROW_2, out)]

\* src/simulator_core/cell.rs, Cell::EVAL_TABLE[selector as usize]
EVAL_TABLE(selector, self, io) ==
    CASE selector = 0 -> table_sim_col1(self, io)
      [] selector = 1 -> table_sim_col2(self, io)
      [] selector = 2 -> table_sim_row1(self, io)
      [] selector = 3 -> table_sim_row2(self, io)

\* src/simulator_core/cell.rs, the loop of eval_cell from entry k of the order on
RECURSIVE TableFrom(_, _, _)
TableFrom(rtm, io, k) ==
    IF k > 4 THEN io
    ELSE LET s == EVAL_TABLE(rtm.activation_order[k], rtm, io)
         IN  TableFrom(s.self, s.io, k + 1)

\* src/simulator_core/cell.rs, Cell::eval_cell
table_eval_cell(self, io) == TableFrom(self, io, 1)

(* C36: the three eval_cell implementations agree on every cell with a valid   *)
(* activation order and every input: the snapshot version (src/fpga/cell.rs),  *)
(* the working-vector version (crates/simulator-core) and the table-dispatched *)
(* version (src/simulator_core/cell.rs) return the same four output bits.      *)
C36_ThreeVersionsAgree ==
    (Returned /\ Completed) =>
        /\ snapshot_eval_cell(cell, arg) = ret
        /\ table_eval_cell(cell, arg) = ret

\* a returned pass during which the working port vector differed from the
\* input passed in while a later line was still to be evaluated, and in which
\* a line resolved false and cleared flags
C36_Witness ==
    /\ Returned /\ Completed
    /\ trace[3].io # arg
    /\ trace[5].flags # cell.flags
    /\ ret \notin {{}, CellIOAll, arg}

----------------------------------------------------------------------------
(* C37: the buffer returned by a successful FPGA::eval on a grid with at least *)
(* one cell has the byte length and the trim of the buffer passed in and both  *)
(* scratch bits zero, so eval on the same grid accepts it again.               *)
C37_BufferReusable ==
    (ev.pc = "Ok" /\ fpga.width * fpga.height >= 1) =>
        /\ len(ev.input) = len(ev.passed)
        /\ ev.input.trim = ev.passed.trim
        /\ ev.input.io[len(ev.input)] \cap ShL({0, 1}, 6) = {}
        /\ len(ev.input) * 8 + ev.input.trim - 2 = fpga.width * 2

\* a pass over two rows has returned Ok with a buffer whose bits changed
C37_Witness ==
    /\ ev.pc = "Ok"
    /\ fpga.height > 1
    /\ ev.input.io # ev.passed.io
    /\ \E k \in 1..Len(ev.log) : ev.log[k].out \cap {ROW_1, ROW_2} # {}

====
